---- MODULE Spec2Model ----
(***************************************************************************)
(* ServiceNowAgent (service_now_agent/agents/servicenow.py): the identity  *)
(* resolvers with their in-memory caches, the category mapper, and the     *)
(* incident lifecycle operations.  The remote client (ServiceNowAPI) is an *)
(* opaque collaborator: every call to it either returns a result record or *)
(* raises.                                                                 *)
(*                                                                         *)
(* Python values are represented as follows.  A dict is a function whose   *)
(* domain is its key set; a str that the code slices or splits is a        *)
(* sequence of one-character strings, any other str is a TLA+ string; a    *)
(* value the code inspects with isinstance()/str() carries a type tag.     *)
(***************************************************************************)
EXTENDS Integers, Sequences, FiniteSets, TLC

VARIABLES config, user_cache, group_cache, pc, last

vars == <<config, user_cache, group_cache, pc, last>>

-----------------------------------------------------------------------------
(* Python dict helpers *)

EmptyDict == << >>

\* d.get(k, default)
Get(d, k, default) == IF k \in DOMAIN d THEN d[k] ELSE default

\* truthiness of d.get(k) for a key that holds a bool when present
IsTrue(d, k) == k \in DOMAIN d /\ d[k] = TRUE

\* d[k] = v
Put(d, k, v) == [x \in (DOMAIN d) \cup {k} |-> IF x = k THEN v ELSE d[x]]

\* "".join(chars): the str whose characters are the sequence s
RECURSIVE Str(_)
Str(s) ==
    IF Len(s) = 0 THEN ""
    ELSE IF Len(s) = 1 THEN s[1]
    ELSE Str(SubSeq(s, 1, Len(s) \div 2)) \o Str(SubSeq(s, Len(s) \div 2 + 1, Len(s)))

\* s.split(sep)[0]
RECURSIVE split0(_, _)
split0(s, sep) ==
    IF s = << >> THEN << >>
    ELSE IF Head(s) = sep THEN << >>
    ELSE <<Head(s)>> \o split0(Tail(s), sep)

\* s[:n]
slice(s, n) == SubSeq(s, 1, IF Len(s) < n THEN Len(s) ELSE n)

\* "\n".join(parts)
RECURSIVE join(_)
join(parts) ==
    IF parts = << >> THEN ""
    ELSE IF Len(parts) = 1 THEN Head(parts)
    ELSE Head(parts) \o "\n" \o join(Tail(parts))

-----------------------------------------------------------------------------
(* Tagged values, for the `error` field of a remote result *)

PyStr(s) == [t |-> "str", s |-> s]
PyNone == [t |-> "NoneType"]
\* a dict as its items in insertion order, each <<key, tagged value>>
PyDict(items) == [t |-> "dict", items |-> items]

RECURSIVE items_get(_, _, _)
items_get(items, k, default) ==
    IF items = << >> THEN default
    ELSE IF Head(items)[1] = k THEN Head(items)[2]
    ELSE items_get(Tail(items), k, default)

RECURSIVE py_repr(_)
RECURSIVE items_repr(_)
items_repr(items) ==
    IF items = << >> THEN ""
    ELSE "'" \o Head(items)[1] \o "': " \o py_repr(Head(items)[2])
         \o (IF Len(items) > 1 THEN ", " ELSE "") \o items_repr(Tail(items))
py_repr(v) ==
    CASE v.t = "str" -> "'" \o v.s \o "'"
      [] v.t = "NoneType" -> "None"
      [] v.t = "dict" -> "{" \o items_repr(v.items) \o "}"

\* str(v)
py_str(v) == IF v.t = "str" THEN v ELSE PyStr(py_repr(v))

-----------------------------------------------------------------------------
(* Outcomes of a call to the remote client *)

Returned(r) == [kind |-> "return", result |-> r]
Raised(m) == [kind |-> "raise", msg |-> m]

NoExc == "<no exception>"

-----------------------------------------------------------------------------
(* Configuration (tools.config_loader.ConfigLoader, read through            *)
(* config.get_setting): loaded once, read-only afterwards.                  *)

\* servicenow_fallbacks: nothing configured, both defaults complete, both
\* defaults partial, both defaults present but empty
Fallbacks ==
    { EmptyDict,
      [default_caller |-> [sys_id |-> "fb_user", name |-> "Help Desk", email |-> "help@corp"],
       default_assignment_group |-> [sys_id |-> "fb_group", name |-> "Triage"]],
      [default_caller |-> [sys_id |-> "fb_user"],
       default_assignment_group |-> [name |-> "Triage"]],
      [default_caller |-> EmptyDict, default_assignment_group |-> EmptyDict] }

\* the other settings: none at all; every table set and auto-creation on;
\* group table only, auto-creation on; group and user tables, auto-creation off
Settings ==
    { EmptyDict,
      [create_unknown_users |-> TRUE,
       category_to_group |-> [IT |-> "IT Support", Other |-> ""],
       category_to_user |-> [IT |-> "it.admin"],
       servicenow_category_mapping |-> [IT |-> "Hardware"]],
      [create_unknown_users |-> TRUE,
       category_to_group |-> [IT |-> "IT Support", Other |-> ""]],
      [create_unknown_users |-> FALSE,
       category_to_group |-> [IT |-> "IT Support"],
       category_to_user |-> [IT |-> "it.admin"]] }

Configs == { Put(s, "servicenow_fallbacks", f) : s \in Settings, f \in Fallbacks }

\* config.get_setting(key, default)
get_setting(cfg, key, default) == Get(cfg, key, default)

\* self.fallback_config, read in __init__
fallback_config(cfg) == get_setting(cfg, "servicenow_fallbacks", EmptyDict)

-----------------------------------------------------------------------------
(* Inputs *)

\* email_data["from"] values: "", "a@x", "user_IT"
Emails == { << >>, <<"a", "@", "x">>, <<"u", "s", "e", "r", "_", "I", "T">> }

Categories == { "IT", "Other" }

\* the str of length n whose i-th character is the last digit of i
Chars(n) == [i \in 1..n |-> <<"0", "1", "2", "3", "4", "5", "6", "7", "8", "9">>[(i % 10) + 1]]

\* lengths of the short descriptions and subjects tried: a few short ones
\* and those around the limits 160 and 255
MaxShortDescription == 162
MaxSubject == 257
ShortDescriptionLengths == (0..1) \cup (158..MaxShortDescription)
SubjectLengths == (0..1) \cup (253..MaxSubject)

\* a ticket with every field the composer reads, the sliced ones over length
FullTicket ==
    [short_description |-> Chars(MaxShortDescription),
     email |-> [from |-> <<"a", "@", "x">>, subject |-> Chars(MaxSubject),
                date |-> "Mon, 1 Jan 2024", body_preview |-> "The printer is down",
                message_id |-> "<m1@x>"],
     summary |-> [description |-> "Printer offline"],
     category |-> [category |-> "IT", subcategory |-> "Printer", priority |-> "1",
                   urgency |-> "2", reasoning |-> "mentions a printer"]]

\* ticket_data bundles: the email and category sub-records, each field
\* optional, and the full ticket
Tickets ==
    { [email |-> e, category |-> c] :
        e \in { EmptyDict } \cup { [from |-> a] : a \in Emails },
        c \in { EmptyDict } \cup { [category |-> k] : k \in Categories } }
    \cup { FullTicket }

\* ticket_data bundles for the composer: the sliced fields at every length
\* tried with priority and urgency given or not, and the fields that
\* decide the sections of the description absent, empty or given
SlicedTickets ==
    { Put(t, "category", c) :
        t \in { [email |-> e] : e \in { EmptyDict } \cup
                    { [subject |-> Chars(n)] : n \in SubjectLengths } }
             \cup { [email |-> EmptyDict, short_description |-> Chars(n)] :
                       n \in ShortDescriptionLengths },
        c \in { EmptyDict, [priority |-> "1"], [urgency |-> "2"],
                [priority |-> "1", urgency |-> "1"] } }

OptionalTexts(key, text) == { EmptyDict, Put(EmptyDict, key, ""), Put(EmptyDict, key, text) }

SectionTickets ==
    { [summary |-> d, email |-> e, category |-> c] :
        d \in OptionalTexts("description", "Printer offline"),
        e \in OptionalTexts("body_preview", "The printer is down"),
        c \in OptionalTexts("reasoning", "mentions a printer") }
    \cup { [email |-> [from |-> <<"a", "@", "x">>, subject |-> Chars(1),
                       date |-> "Mon, 1 Jan 2024"]] }

ComposerTickets == SlicedTickets \cup SectionTickets \cup { FullTicket }

\* results of the remote client
LookupUserByEmailOutcomes ==
    { Returned([found |-> TRUE, sys_id |-> "u1", name |-> "Alice"]),
      Returned([found |-> FALSE]),
      Raised("lookup_user_by_email: timeout") }

CreateUserOutcomes ==
    { Returned([success |-> TRUE, sys_id |-> "u3", name |-> "New External"]),
      Returned([success |-> FALSE]),
      Raised("create_user: timeout") }

LookupGroupByNameOutcomes ==
    { Returned([found |-> TRUE, sys_id |-> "g1", name |-> "IT Support"]),
      Returned([found |-> FALSE]),
      Raised("lookup_group_by_name: timeout") }

LookupUserByUsernameOutcomes ==
    { Returned([found |-> TRUE, sys_id |-> "u2", name |-> "IT Admin"]),
      Returned([found |-> FALSE]),
      Raised("lookup_user_by_username: timeout") }

CreateIncidentOutcomes ==
    { Returned([success |-> TRUE, ticket_number |-> "INC0001", sys_id |-> "inc1"]),
      Returned([success |-> FALSE]),
      Returned([success |-> FALSE, error |-> PyStr("HTTP 500")]),
      Returned([success |-> FALSE,
              error |-> PyDict(<< <<"message", PyStr("Invalid table")>>,
                                  <<"detail", PyNone>> >>)]),
      Returned([success |-> FALSE,
              error |-> PyDict(<< <<"detail", PyStr("ACL")>> >>)]),
      Returned([success |-> FALSE, error |-> PyNone]),
      Raised("create_incident: connection refused") }

\* inputs and remote results of the other lifecycle operations
SysIds == { "inc1" }

UpdateDatas == { [state |-> "2"], [comments |-> "see attachment"] }

CloseArgs ==
    { EmptyDict,
      [resolution_notes |-> "restarted the service"],
      [resolution_code |-> "Solved (Permanently)", resolution_notes |-> "patched"] }

Comments == { "working on it" }

CommentArgs == { EmptyDict, [comment_type |-> "comments"] }

SearchArgs == { EmptyDict, [days_back |-> 7] }

\* clock readings, in ticks
MaxTime == 3
TicksPerSecond == 2
Times == 0..MaxTime

\* clock readings at which create_incident composes a description
ComposeTimes == { 0, MaxTime }

UpdateIncidentOutcomes ==
    { Returned([success |-> TRUE]),
      Returned([success |-> FALSE]),
      Returned([success |-> FALSE, error |-> PyStr("HTTP 404")]),
      Raised("update_incident: timeout") }

AddCommentOutcomes ==
    { Returned([success |-> TRUE]),
      Returned([success |-> FALSE, error |-> PyStr("HTTP 403")]),
      Raised("add_comment: timeout") }

GetIncidentOutcomes ==
    { Returned([found |-> TRUE, state |-> "2", state_name |-> "In Progress",
                resolution_code |-> "", resolution_notes |-> "",
                sys_updated_on |-> "2024-01-01 00:00:00"]),
      Returned([found |-> FALSE]),
      Raised("get_incident: timeout") }

SearchOutcomes ==
    { Returned([success |-> TRUE, incidents |-> <<[number |-> "INC0001"]>>]),
      Returned([success |-> TRUE]),
      Returned([success |-> FALSE, error |-> PyStr("HTTP 500")]),
      Raised("search_incidents_by_caller_email: timeout") }

TestConnectionOutcomes ==
    { Returned(TRUE), Returned(FALSE), Raised("test_connection: timeout") }

-----------------------------------------------------------------------------
(* Results of the modelled methods.  A method either returns a value (ret)  *)
(* or lets an exception escape (exc, NoExc when none does); it leaves the   *)
(* cache it works on as `cache` and has issued the remote calls `calls`, in *)
(* order, each recorded with the answer it got.                             *)

Result(ret, cache, calls) ==
    [ret |-> ret, cache |-> cache, calls |-> calls, exc |-> NoExc]

Raises(msg, cache, calls) ==
    [ret |-> PyNone, cache |-> cache, calls |-> calls, exc |-> msg]

\* try: <r>  except Exception: return v
TryExcept(r, v) ==
    IF r.exc = NoExc THEN r
    ELSE [r EXCEPT !.ret = v, !.exc = NoExc]

\* try: <r>  except Exception as e: return {"success": False, "error": str(e)}
TryExceptFailure(r) ==
    IF r.exc = NoExc THEN r
    ELSE [r EXCEPT !.ret = [success |-> FALSE, error |-> PyStr(r.exc)], !.exc = NoExc]

\* try: <r>  except Exception as e: return {"found": False, "error": str(e)}
TryExceptNotFound(r) ==
    IF r.exc = NoExc THEN r
    ELSE [r EXCEPT !.ret = [found |-> FALSE, error |-> PyStr(r.exc)], !.exc = NoExc]

\* r, after the remote calls `calls` were issued before it
After(calls, r) == [r EXCEPT !.calls = calls \o r.calls]

-----------------------------------------------------------------------------
(* Identity resolver *)

\* _get_fallback_caller that ignores the configured default_caller
_get_fallback_caller_hardcoded(cfg) ==
    [sys_id |-> "", name |-> "Unknown Caller", email |-> "unknown@company.com"]

_get_fallback_caller(cfg) ==
    LET fallback_user == Get(fallback_config(cfg), "default_caller", EmptyDict)
    IN  IF DOMAIN fallback_user = {}
        THEN [sys_id |-> "", name |-> "Unknown Caller", email |-> "unknown@company.com"]
        ELSE [sys_id |-> Get(fallback_user, "sys_id", ""),
              name |-> Get(fallback_user, "name", "Default Caller"),
              email |-> Get(fallback_user, "email", "default@company.com")]

_get_fallback_group(cfg) ==
    LET fallback_group == Get(fallback_config(cfg), "default_assignment_group", EmptyDict)
    IN  IF DOMAIN fallback_group = {}
        THEN [sys_id |-> "", name |-> "General Support"]
        ELSE [sys_id |-> Get(fallback_group, "sys_id", ""),
              name |-> Get(fallback_group, "name", "Default Group")]

\* new_user_data that names the user after the whole address
new_user_data_whole_address(email_address) ==
    [email |-> Str(email_address),
     user_name |-> Str(email_address),
     first_name |-> Str(email_address),
     last_name |-> "External",
     active |-> TRUE]

\* the user_data record _handle_unknown_caller sends to create_user
new_user_data(email_address) ==
    [email |-> Str(email_address),
     user_name |-> Str(split0(email_address, "@")),
     first_name |-> Str(split0(email_address, "@")),
     last_name |-> "External",
     active |-> TRUE]

\* create_unknown_user that remembers the fallback caller it returns when
\* the creation fails
create_unknown_user_caches_fallback(cfg, ucache, email_address, oCreate) ==
    LET call == [api |-> "create_user", arg |-> new_user_data(email_address),
                 answer |-> oCreate]
        caller_info == [sys_id |-> oCreate.result.sys_id,
                        name |-> oCreate.result.name,
                        email |-> Str(email_address)]
    IN  IF oCreate.kind = "raise"
        THEN Raises(oCreate.msg, ucache, <<call>>)
        ELSE IF IsTrue(oCreate.result, "success")
        THEN Result(caller_info, Put(ucache, Str(email_address), caller_info), <<call>>)
        ELSE Result(_get_fallback_caller(cfg),
                    Put(ucache, Str(email_address), _get_fallback_caller(cfg)), <<call>>)

\* _handle_unknown_caller, once create_unknown_users is known to be set:
\* the create_user call and what follows it
create_unknown_user(cfg, ucache, email_address, oCreate) ==
    LET call == [api |-> "create_user", arg |-> new_user_data(email_address),
                 answer |-> oCreate]
        caller_info == [sys_id |-> oCreate.result.sys_id,
                        name |-> oCreate.result.name,
                        email |-> Str(email_address)]
    IN  IF oCreate.kind = "raise"
        THEN Raises(oCreate.msg, ucache, <<call>>)
        ELSE IF IsTrue(oCreate.result, "success")
        THEN Result(caller_info, Put(ucache, Str(email_address), caller_info), <<call>>)
        ELSE Result(_get_fallback_caller(cfg), ucache, <<call>>)

\* _handle_unknown_caller_try that ignores the create_unknown_users setting
_handle_unknown_caller_try_always_create(cfg, ucache, email_address, oCreate) ==
    create_unknown_user(cfg, ucache, email_address, oCreate)

\* _handle_unknown_caller, the body of its try block
_handle_unknown_caller_try(cfg, ucache, email_address, oCreate) ==
    IF get_setting(cfg, "create_unknown_users", FALSE)
    THEN create_unknown_user(cfg, ucache, email_address, oCreate)
    ELSE Result(_get_fallback_caller(cfg), ucache, << >>)

\* _handle_unknown_caller that looks in the cache again before it asks for
\* a new user
_handle_unknown_caller_rechecking(cfg, ucache, email_address, oCreate) ==
    IF Str(email_address) \in DOMAIN ucache
    THEN Result(ucache[Str(email_address)], ucache, << >>)
    ELSE TryExcept(_handle_unknown_caller_try(cfg, ucache, email_address, oCreate),
                   _get_fallback_caller(cfg))

_handle_unknown_caller(cfg, ucache, email_address, oCreate) ==
    TryExcept(_handle_unknown_caller_try(cfg, ucache, email_address, oCreate),
              _get_fallback_caller(cfg))

\* _lookup_caller, the body of its try block
_lookup_caller_try(cfg, ucache, email_address, oLookup, oCreate) ==
    LET call == [api |-> "lookup_user_by_email", arg |-> Str(email_address),
                 answer |-> oLookup]
        caller_info == [sys_id |-> oLookup.result.sys_id,
                        name |-> oLookup.result.name,
                        email |-> Str(email_address)]
    IN  IF oLookup.kind = "raise"
        THEN Raises(oLookup.msg, ucache, <<call>>)
        ELSE IF IsTrue(oLookup.result, "found")
        THEN Result(caller_info, Put(ucache, Str(email_address), caller_info), <<call>>)
        ELSE After(<<call>>,
                   _handle_unknown_caller(cfg, ucache, email_address, oCreate))

\* _lookup_caller with the cache check missing
_lookup_caller_no_cache_check(cfg, ucache, email_address, oLookup, oCreate) ==
    IF email_address = << >>
    THEN Result(_get_fallback_caller(cfg), ucache, << >>)
    ELSE TryExcept(_lookup_caller_try(cfg, ucache, email_address, oLookup, oCreate),
                   _get_fallback_caller(cfg))

\* _lookup_caller with the test for an empty address missing
_lookup_caller_no_empty_check(cfg, ucache, email_address, oLookup, oCreate) ==
    IF Str(email_address) \in DOMAIN ucache
    THEN Result(ucache[Str(email_address)], ucache, << >>)
    ELSE TryExcept(_lookup_caller_try(cfg, ucache, email_address, oLookup, oCreate),
                   _get_fallback_caller(cfg))

_lookup_caller(cfg, ucache, email_address, oLookup, oCreate) ==
    IF email_address = << >>
    THEN Result(_get_fallback_caller(cfg), ucache, << >>)
    ELSE IF Str(email_address) \in DOMAIN ucache
    THEN Result(ucache[Str(email_address)], ucache, << >>)
    ELSE TryExcept(_lookup_caller_try(cfg, ucache, email_address, oLookup, oCreate),
                   _get_fallback_caller(cfg))

\* _lookup_assignment_group_try that does not store the group it found
_lookup_assignment_group_try_not_cached(cfg, gcache, category, oGroup) ==
    LET mapped_group == Get(get_setting(cfg, "category_to_group", EmptyDict),
                            category, "")
        call == [api |-> "lookup_group_by_name", arg |-> mapped_group,
                 answer |-> oGroup]
        group_info == [sys_id |-> oGroup.result.sys_id, name |-> oGroup.result.name]
    IN  IF mapped_group = ""
        THEN Result(_get_fallback_group(cfg), gcache, << >>)
        ELSE IF oGroup.kind = "raise"
        THEN Raises(oGroup.msg, gcache, <<call>>)
        ELSE IF IsTrue(oGroup.result, "found")
        THEN Result(group_info, gcache, <<call>>)
        ELSE Result(_get_fallback_group(cfg), gcache, <<call>>)

\* _lookup_assignment_group, the body of its try block
_lookup_assignment_group_try(cfg, gcache, category, oGroup) ==
    LET cache_key == "group_" \o category
        \* group_mappings.get(category): None when absent; None and "" are
        \* both falsy
        mapped_group == Get(get_setting(cfg, "category_to_group", EmptyDict),
                            category, "")
        call == [api |-> "lookup_group_by_name", arg |-> mapped_group,
                 answer |-> oGroup]
        group_info == [sys_id |-> oGroup.result.sys_id, name |-> oGroup.result.name]
    IN  IF mapped_group = ""
        THEN Result(_get_fallback_group(cfg), gcache, << >>)
        ELSE IF oGroup.kind = "raise"
        THEN Raises(oGroup.msg, gcache, <<call>>)
        ELSE IF IsTrue(oGroup.result, "found")
        THEN Result(group_info, Put(gcache, cache_key, group_info), <<call>>)
        ELSE Result(_get_fallback_group(cfg), gcache, <<call>>)

_lookup_assignment_group(cfg, gcache, category, oGroup) ==
    IF ("group_" \o category) \in DOMAIN gcache
    THEN Result(gcache["group_" \o category], gcache, << >>)
    ELSE TryExcept(_lookup_assignment_group_try(cfg, gcache, category, oGroup),
                   _get_fallback_group(cfg))

\* _lookup_assigned_user, the body of its try block
_lookup_assigned_user_try(cfg, ucache, category, oUser) ==
    LET cache_key == "user_" \o category
        \* user_mappings.get(category): None when absent; None and "" are
        \* both falsy
        mapped_user == Get(get_setting(cfg, "category_to_user", EmptyDict),
                           category, "")
        call == [api |-> "lookup_user_by_username", arg |-> mapped_user,
                 answer |-> oUser]
        user_info == [sys_id |-> oUser.result.sys_id, name |-> oUser.result.name]
    IN  IF mapped_user = ""
        THEN Result([sys_id |-> "", name |-> ""], ucache, << >>)
        ELSE IF oUser.kind = "raise"
        THEN Raises(oUser.msg, ucache, <<call>>)
        ELSE IF IsTrue(oUser.result, "found")
        THEN Result(user_info, Put(ucache, cache_key, user_info), <<call>>)
        ELSE Result([sys_id |-> "", name |-> ""], ucache, <<call>>)

\* _lookup_assigned_user with the try/except missing: a raising remote lookup
\* escapes the resolver
_lookup_assigned_user_no_except(cfg, ucache, category, oUser) ==
    IF ("user_" \o category) \in DOMAIN ucache
    THEN Result(ucache["user_" \o category], ucache, << >>)
    ELSE _lookup_assigned_user_try(cfg, ucache, category, oUser)

\* _lookup_assigned_user that looks the user up afresh on every call
_lookup_assigned_user_refresh(cfg, ucache, category, oUser) ==
    TryExcept(_lookup_assigned_user_try(cfg, ucache, category, oUser),
              [sys_id |-> "", name |-> ""])

_lookup_assigned_user(cfg, ucache, category, oUser) ==
    IF ("user_" \o category) \in DOMAIN ucache
    THEN Result(ucache["user_" \o category], ucache, << >>)
    ELSE TryExcept(_lookup_assigned_user_try(cfg, ucache, category, oUser),
                   [sys_id |-> "", name |-> ""])

-----------------------------------------------------------------------------
(* Category mapper *)

default_mappings ==
    [IT |-> "Software", HR |-> "Human Resources", Finance |-> "Finance",
     Facilities |-> "Facilities", General |-> "General"]

\* _map_category_to_servicenow that ignores the configured override table
_map_category_to_servicenow_no_override(cfg, category) ==
    Get(default_mappings, category, "General")

_map_category_to_servicenow(cfg, category) ==
    LET category_mappings == get_setting(cfg, "servicenow_category_mapping", EmptyDict)
    IN  IF category \in DOMAIN category_mappings
        THEN category_mappings[category]
        ELSE Get(default_mappings, category, "General")

-----------------------------------------------------------------------------
(* Incident lifecycle operations *)

\* the error of a failed remote create without the dict case: str() of it
normalize_error_str_only(result) ==
    py_str(Get(result, "error", PyStr("Unknown error")))

\* create_incident, lines 93-97: the error of a failed remote create as a str
normalize_error(result) ==
    LET error_msg == Get(result, "error", PyStr("Unknown error"))
    IN  IF error_msg.t = "dict"
        THEN items_get(error_msg.items, "message", py_str(error_msg))
        ELSE py_str(error_msg)

\* ticket_data.get("email", {}).get("from", "")
ticket_from(ticket_data) == Get(Get(ticket_data, "email", EmptyDict), "from", << >>)

\* ticket_data.get("category", {}).get("category", "General")
ticket_category(ticket_data) ==
    Get(Get(ticket_data, "category", EmptyDict), "category", "General")

-----------------------------------------------------------------------------
(* Incident composer *)

\* datetime.isoformat() of a clock reading, in ticks
isoformat(t) == "T" \o ToString(t)

\* _build_incident_description, lines 121-124
issue_section(summary_data) ==
    IF Get(summary_data, "description", "") # ""
    THEN <<"Issue Description:", summary_data.description, "">>
    ELSE << >>

\* _build_incident_description, lines 127-130
email_details(email_data) ==
    <<"Email Details:",
      "From: " \o (IF "from" \in DOMAIN email_data THEN Str(email_data.from)
                   ELSE "Unknown"),
      "Subject: " \o (IF "subject" \in DOMAIN email_data THEN Str(email_data.subject)
                      ELSE "No Subject"),
      "Date: " \o Get(email_data, "date", "Unknown")>>

\* preview_section that emits its header whether or not there is a preview
preview_section_always(email_data) ==
    <<"", "Email Preview:", Get(email_data, "body_preview", "")>>

\* _build_incident_description, lines 133-136
preview_section(email_data) ==
    IF Get(email_data, "body_preview", "") # ""
    THEN <<"", "Email Preview:", email_data.body_preview>>
    ELSE << >>

\* _build_incident_description, lines 139-143
categorization_section(category_data) ==
    IF Get(category_data, "reasoning", "") # ""
    THEN <<"", "Categorization:",
           "Category: " \o Get(category_data, "category", "General"),
           "Reasoning: " \o Get(category_data, "reasoning", "")>>
    ELSE << >>

\* _build_incident_description, lines 146-147
timestamp_section(now) == <<"", "Auto-generated: " \o isoformat(now)>>

\* description_parts as _build_incident_description leaves it
description_parts(ticket_data, now) ==
    issue_section(Get(ticket_data, "summary", EmptyDict))
    \o email_details(Get(ticket_data, "email", EmptyDict))
    \o preview_section(Get(ticket_data, "email", EmptyDict))
    \o categorization_section(Get(ticket_data, "category", EmptyDict))
    \o timestamp_section(now)

_build_incident_description(ticket_data, now) == join(description_parts(ticket_data, now))

\* short_description_field that submits the short description whole
short_description_field_whole(ticket_data) ==
    Get(ticket_data, "short_description", <<"S", "u", "p", "p", "o", "r", "t", " ",
                                            "R", "e", "q", "u", "e", "s", "t">>)

\* create_incident, line 62
short_description_field(ticket_data) ==
    slice(Get(ticket_data, "short_description",
              <<"S", "u", "p", "p", "o", "r", "t", " ",
                "R", "e", "q", "u", "e", "s", "t">>), 160)

\* create_incident, line 73
u_email_subject_field(email_data) == slice(Get(email_data, "subject", << >>), 255)

\* create_incident, lines 61-75: the payload, given the records the three
\* resolvers returned and the clock reading of the description
incident_data(cfg, ticket_data, now, caller_info, assignment_group, assigned_user) ==
    [short_description |-> short_description_field(ticket_data),
     description |-> _build_incident_description(ticket_data, now),
     caller_id |-> Get(caller_info, "sys_id", ""),
     category |-> _map_category_to_servicenow(cfg, ticket_category(ticket_data)),
     subcategory |-> Get(Get(ticket_data, "category", EmptyDict), "subcategory", ""),
     priority |-> Get(Get(ticket_data, "category", EmptyDict), "priority", "3"),
     urgency |-> Get(Get(ticket_data, "category", EmptyDict), "urgency", "3"),
     assignment_group |-> Get(assignment_group, "sys_id", ""),
     assigned_to |-> Get(assigned_user, "sys_id", ""),
     contact_type |-> "Email",
     u_source_email |-> Str(ticket_from(ticket_data)),
     u_email_subject |-> u_email_subject_field(Get(ticket_data, "email", EmptyDict)),
     comments |-> "Auto-generated from email: "
                  \o Get(Get(ticket_data, "email", EmptyDict), "message_id", "")]

\* what create_incident returns besides ret: both caches, the call log and
\* what its resolvers returned (trace; empty if one of them raised)
Outcome(ret, exc, ucache, gcache, calls, trace) ==
    [ret |-> ret, exc |-> exc, ucache |-> ucache, gcache |-> gcache,
     calls |-> calls, trace |-> trace]

\* create_incident, lines 61-103: the payload, the remote create call and
\* the result, given what the three resolvers returned
submit_incident(cfg, ticket_data, o, caller, group, user) ==
    LET oIncident == o.create_incident
        call == [api |-> "create_incident",
                 arg |-> incident_data(cfg, ticket_data, o.now,
                                       caller.ret, group.ret, user.ret),
                 answer |-> o.create_incident]
    IN  Outcome(
            IF oIncident.kind = "raise" THEN PyNone
            ELSE IF IsTrue(oIncident.result, "success")
            THEN [success |-> TRUE,
                  ticket_number |-> Get(oIncident.result, "ticket_number", PyNone),
                  sys_id |-> Get(oIncident.result, "sys_id", PyNone),
                  assignment_group |-> Get(group.ret, "name", ""),
                  assigned_user |-> Get(user.ret, "name", ""),
                  caller |-> Get(caller.ret, "name", "")]
            ELSE [success |-> FALSE, error |-> normalize_error(oIncident.result)],
            IF oIncident.kind = "raise" THEN oIncident.msg ELSE NoExc,
            user.cache, group.cache,
            caller.calls \o group.calls \o user.calls \o <<call>>,
            [caller |-> caller.ret, group |-> group.ret, user |-> user.ret,
             user_cache_seen_by_assigned_user |-> caller.cache])

\* resolved_incident that submits nothing for a caller it has seen before
resolved_incident_once(cfg, ticket_data, o, caller, group, user) ==
    IF caller.calls = << >> /\ ticket_from(ticket_data) # << >>
    THEN Outcome([success |-> FALSE, error |-> PyStr("duplicate")], NoExc,
                 user.cache, group.cache,
                 caller.calls \o group.calls \o user.calls,
                 [caller |-> caller.ret, group |-> group.ret, user |-> user.ret,
                  user_cache_seen_by_assigned_user |-> caller.cache])
    ELSE submit_incident(cfg, ticket_data, o, caller, group, user)

\* create_incident, lines 52-58 on: an exception escaping a resolver ends
\* the try block; otherwise the incident is composed and submitted
resolved_incident(cfg, ticket_data, o, caller, group, user) ==
    IF caller.exc # NoExc
    THEN Outcome(PyNone, caller.exc, caller.cache, group.cache, caller.calls, EmptyDict)
    ELSE IF group.exc # NoExc
    THEN Outcome(PyNone, group.exc, caller.cache, group.cache,
                 caller.calls \o group.calls, EmptyDict)
    ELSE IF user.exc # NoExc
    THEN Outcome(PyNone, user.exc, user.cache, group.cache,
                 caller.calls \o group.calls \o user.calls, EmptyDict)
    ELSE submit_incident(cfg, ticket_data, o, caller, group, user)

\* create_incident, lines 54-58: the group and the assigned user, resolved
\* after the caller (the assigned user against the user cache the caller
\* resolution left).  A resolver is not run once an earlier one has raised.
resolve_assignment(cfg, gcache, ticket_data, o, caller) ==
    resolved_incident(cfg, ticket_data, o, caller,
        IF caller.exc # NoExc THEN Result(PyNone, gcache, << >>)
        ELSE _lookup_assignment_group(cfg, gcache, ticket_category(ticket_data),
                                      o.lookup_group_by_name),
        IF caller.exc # NoExc THEN Result(PyNone, caller.cache, << >>)
        ELSE _lookup_assigned_user(cfg, caller.cache, ticket_category(ticket_data),
                                   o.lookup_user_by_username))

\* create_incident, the body of its try block.  o holds the answer the
\* remote client gives to each call the body may issue and the clock
\* reading datetime.now() gives (now).
create_incident_try(cfg, ucache, gcache, ticket_data, o) ==
    resolve_assignment(cfg, gcache, ticket_data, o,
        _lookup_caller(cfg, ucache, ticket_from(ticket_data),
                       o.lookup_user_by_email, o.create_user))

\* create_incident with the except clause missing
create_incident_no_except(cfg, ucache, gcache, ticket_data, o) ==
    create_incident_try(cfg, ucache, gcache, ticket_data, o)

\* r, with the caches put back to ucache and gcache unless it reports success
rolled_back(r, ucache, gcache) ==
    IF IsTrue(r.ret, "success") THEN r
    ELSE [r EXCEPT !.ucache = ucache, !.gcache = gcache]

\* create_incident that forgets what it resolved when the incident is not
\* created
create_incident_rolling_back(cfg, ucache, gcache, ticket_data, o) ==
    rolled_back(TryExceptFailure(create_incident_try(cfg, ucache, gcache, ticket_data, o)),
                ucache, gcache)

\* create_incident: the try block and its except clause
create_incident(cfg, ucache, gcache, ticket_data, o) ==
    TryExceptFailure(create_incident_try(cfg, ucache, gcache, ticket_data, o))

\* lines 332-339, 369-376, 394-401: the remote call of update_incident,
\* add_comment_to_incident and close_incident and the result made of it
success_or_error(call) ==
    IF call.answer.kind = "raise"
    THEN Raises(call.answer.msg, EmptyDict, <<call>>)
    ELSE IF IsTrue(call.answer.result, "success")
    THEN Result([success |-> TRUE], EmptyDict, <<call>>)
    ELSE Result([success |-> FALSE, error |-> Get(call.answer.result, "error", PyNone)],
                EmptyDict, <<call>>)

update_incident(sys_id, update_data, o) ==
    TryExceptFailure(success_or_error([api |-> "update_incident",
                                       arg |-> <<sys_id, update_data>>,
                                       answer |-> o]))

\* get_incident_status_try that reports a missing incident as an error
get_incident_status_try_error_when_missing(sys_id, o) ==
    LET call == [api |-> "get_incident", arg |-> sys_id, answer |-> o]
    IN  IF o.kind = "raise"
        THEN Raises(o.msg, EmptyDict, <<call>>)
        ELSE IF IsTrue(o.result, "found")
        THEN Result([found |-> TRUE,
                     state |-> Get(o.result, "state", PyNone),
                     state_name |-> Get(o.result, "state_name", PyNone),
                     resolution_code |-> Get(o.result, "resolution_code", PyNone),
                     resolution_notes |-> Get(o.result, "resolution_notes", PyNone),
                     updated |-> Get(o.result, "sys_updated_on", PyNone)],
                    EmptyDict, <<call>>)
        ELSE Result([found |-> FALSE, error |-> PyStr("not found")], EmptyDict, <<call>>)

\* get_incident_status, the body of its try block
get_incident_status_try(sys_id, o) ==
    LET call == [api |-> "get_incident", arg |-> sys_id, answer |-> o]
    IN  IF o.kind = "raise"
        THEN Raises(o.msg, EmptyDict, <<call>>)
        ELSE IF IsTrue(o.result, "found")
        THEN Result([found |-> TRUE,
                     state |-> Get(o.result, "state", PyNone),
                     state_name |-> Get(o.result, "state_name", PyNone),
                     resolution_code |-> Get(o.result, "resolution_code", PyNone),
                     resolution_notes |-> Get(o.result, "resolution_notes", PyNone),
                     updated |-> Get(o.result, "sys_updated_on", PyNone)],
                    EmptyDict, <<call>>)
        ELSE Result([found |-> FALSE], EmptyDict, <<call>>)

get_incident_status(sys_id, o) ==
    TryExceptNotFound(get_incident_status_try(sys_id, o))

\* args: the keyword arguments the caller passed besides sys_id and comment
add_comment_to_incident(sys_id, comment, args, o) ==
    TryExceptFailure(success_or_error(
        [api |-> "add_comment",
         arg |-> <<sys_id, comment, Get(args, "comment_type", "work_notes")>>,
         answer |-> o]))

\* datetime.strftime("%Y-%m-%d %H:%M:%S"): a clock reading, in ticks, to
\* the whole second it falls in
strftime(t) == t \div TicksPerSecond

\* close_incident that ignores the outcome of the remote update
close_incident_always_succeeds(sys_id, args, t1, t2, o) ==
    LET close_data ==
            [state |-> "6",
             resolution_code |-> Get(args, "resolution_code", "Closed/Resolved by Caller"),
             resolution_notes |-> Get(args, "resolution_notes", ""),
             closed_at |-> strftime(t1),
             resolved_at |-> strftime(t2)]
    IN  Result([success |-> TRUE], EmptyDict,
               <<[api |-> "update_incident", arg |-> <<sys_id, close_data>>,
                  answer |-> o]>>)

\* args: the keyword arguments the caller passed besides sys_id;
\* t1, t2: the two successive readings of datetime.now()
close_incident(sys_id, args, t1, t2, o) ==
    LET close_data ==
            [state |-> "6",
             resolution_code |-> Get(args, "resolution_code", "Closed/Resolved by Caller"),
             resolution_notes |-> Get(args, "resolution_notes", ""),
             closed_at |-> strftime(t1),
             resolved_at |-> strftime(t2)]
    IN  TryExceptFailure(success_or_error([api |-> "update_incident",
                                           arg |-> <<sys_id, close_data>>,
                                           answer |-> o]))

\* search_incidents_by_email, the body of its try block
search_incidents_by_email_try(email, args, o) ==
    LET call == [api |-> "search_incidents_by_caller_email",
                 arg |-> <<email, Get(args, "days_back", 30)>>,
                 answer |-> o]
    IN  IF o.kind = "raise"
        THEN Raises(o.msg, EmptyDict, <<call>>)
        ELSE IF IsTrue(o.result, "success")
        THEN Result(Get(o.result, "incidents", << >>), EmptyDict, <<call>>)
        ELSE Result(<< >>, EmptyDict, <<call>>)

\* search_incidents_by_email with the except clause missing
search_incidents_by_email_no_except(email, args, o) ==
    search_incidents_by_email_try(email, args, o)

\* args: the keyword arguments the caller passed besides email
search_incidents_by_email(email, args, o) ==
    TryExcept(search_incidents_by_email_try(email, args, o), << >>)

\* validate_servicenow_connection, the body of its try block
validate_servicenow_connection_try(o) ==
    LET call == [api |-> "test_connection", arg |-> << >>, answer |-> o]
    IN  IF o.kind = "raise"
        THEN Raises(o.msg, EmptyDict, <<call>>)
        ELSE Result(o.result, EmptyDict, <<call>>)

validate_servicenow_connection(o) ==
    TryExcept(validate_servicenow_connection_try(o), FALSE)

-----------------------------------------------------------------------------
(* State machine.  A caller invokes one public operation at a time; the     *)
(* operation runs to completion (pc = "returned", last = what it did) and   *)
(* the caller then takes the result (pc = "idle").                          *)

Idle == [op |-> "none"]

Init ==
    /\ config \in Configs
    /\ user_cache = EmptyDict
    /\ group_cache = EmptyDict
    /\ pc = "idle"
    /\ last = Idle

\* what the last operation did; user_cache_before and group_cache_before are
\* the caches as the operation found them
Done(op, args, r) ==
    [op |-> op, args |-> args, ret |-> r.ret, exc |-> r.exc, calls |-> r.calls,
     trace |-> Get(r, "trace", EmptyDict),
     user_cache_before |-> user_cache, group_cache_before |-> group_cache]

\* r, with the clock readings t1, t2 it took
Timed(r, t1, t2) ==
    [ret |-> r.ret, exc |-> r.exc, calls |-> r.calls, trace |-> [now |-> <<t1, t2>>]]

\* TRUE iff the operation result r issued the remote call api
Issues(r, api) == \E i \in 1..Len(r.calls) : r.calls[i].api = api

\* the answer to a remote call that is never issued
Unanswered == Raised("not called")

NoAnswers ==
    [lookup_user_by_email |-> Unanswered, create_user |-> Unanswered,
     lookup_group_by_name |-> Unanswered, lookup_user_by_username |-> Unanswered,
     create_incident |-> Unanswered, now |-> 0]

\* the answers the remote client can give to the call api, given the answers
\* o to the calls issued before it: those in S if the call is issued at all
Answers(ticket_data, o, api, S) ==
    IF Issues(create_incident(config, user_cache, group_cache, ticket_data, o), api)
    THEN S
    ELSE { Unanswered }

\* create_incident has run with result r
CreateIncidentDone(ticket_data, r) ==
    /\ user_cache' = r.ucache
    /\ group_cache' = r.gcache
    /\ last' = Done("create_incident", ticket_data, r)

CreateIncident ==
    /\ pc = "idle"
    /\ \E ticket_data \in Tickets :
       \E o1 \in Answers(ticket_data, NoAnswers,
                         "lookup_user_by_email", LookupUserByEmailOutcomes) :
       \E o2 \in Answers(ticket_data,
                         [NoAnswers EXCEPT !.lookup_user_by_email = o1],
                         "create_user", CreateUserOutcomes) :
       \E o3 \in Answers(ticket_data,
                         [NoAnswers EXCEPT !.lookup_user_by_email = o1,
                                           !.create_user = o2],
                         "lookup_group_by_name", LookupGroupByNameOutcomes) :
       \E o4 \in Answers(ticket_data,
                         [NoAnswers EXCEPT !.lookup_user_by_email = o1,
                                           !.create_user = o2,
                                           !.lookup_group_by_name = o3],
                         "lookup_user_by_username", LookupUserByUsernameOutcomes) :
       \E o5 \in Answers(ticket_data,
                         [NoAnswers EXCEPT !.lookup_user_by_email = o1,
                                           !.create_user = o2,
                                           !.lookup_group_by_name = o3,
                                           !.lookup_user_by_username = o4],
                         "create_incident", CreateIncidentOutcomes) :
       \E now \in ComposeTimes :
          CreateIncidentDone(ticket_data,
              create_incident(config, user_cache, group_cache, ticket_data,
                  [lookup_user_by_email |-> o1, create_user |-> o2,
                   lookup_group_by_name |-> o3, lookup_user_by_username |-> o4,
                   create_incident |-> o5, now |-> now]))
    /\ pc' = "returned"
    /\ UNCHANGED config

UpdateIncident ==
    /\ pc = "idle"
    /\ \E sys_id \in SysIds, update_data \in UpdateDatas, o \in UpdateIncidentOutcomes :
        last' = Done("update_incident", <<sys_id, update_data>>,
                     update_incident(sys_id, update_data, o))
    /\ pc' = "returned"
    /\ UNCHANGED <<config, user_cache, group_cache>>

CloseIncident ==
    /\ pc = "idle"
    /\ \E sys_id \in SysIds, args \in CloseArgs, t1 \in Times, t2 \in Times,
          o \in UpdateIncidentOutcomes :
        /\ t1 <= t2
        /\ last' = Done("close_incident", <<sys_id, args>>,
                        Timed(close_incident(sys_id, args, t1, t2, o), t1, t2))
    /\ pc' = "returned"
    /\ UNCHANGED <<config, user_cache, group_cache>>

AddCommentToIncident ==
    /\ pc = "idle"
    /\ \E sys_id \in SysIds, comment \in Comments, args \in CommentArgs,
          o \in AddCommentOutcomes :
        last' = Done("add_comment_to_incident", <<sys_id, comment, args>>,
                     add_comment_to_incident(sys_id, comment, args, o))
    /\ pc' = "returned"
    /\ UNCHANGED <<config, user_cache, group_cache>>

GetIncidentStatus ==
    /\ pc = "idle"
    /\ \E sys_id \in SysIds, o \in GetIncidentOutcomes :
        last' = Done("get_incident_status", <<sys_id>>,
                     get_incident_status(sys_id, o))
    /\ pc' = "returned"
    /\ UNCHANGED <<config, user_cache, group_cache>>

SearchIncidentsByEmail ==
    /\ pc = "idle"
    /\ \E email \in Emails, args \in SearchArgs, o \in SearchOutcomes :
        last' = Done("search_incidents_by_email", <<Str(email), args>>,
                     search_incidents_by_email(Str(email), args, o))
    /\ pc' = "returned"
    /\ UNCHANGED <<config, user_cache, group_cache>>

ValidateServicenowConnection ==
    /\ pc = "idle"
    /\ \E o \in TestConnectionOutcomes :
        last' = Done("validate_servicenow_connection", << >>,
                     validate_servicenow_connection(o))
    /\ pc' = "returned"
    /\ UNCHANGED <<config, user_cache, group_cache>>

\* the caller takes the result and is ready to invoke the next operation
TakeResult ==
    /\ pc = "returned"
    /\ pc' = "idle"
    /\ last' = Idle
    /\ UNCHANGED <<config, user_cache, group_cache>>

Next ==
    \/ CreateIncident
    \/ UpdateIncident
    \/ CloseIncident
    \/ AddCommentToIncident
    \/ GetIncidentStatus
    \/ SearchIncidentsByEmail
    \/ ValidateServicenowConnection
    \/ TakeResult

Spec == Init /\ [][Next]_vars

-----------------------------------------------------------------------------
(* The composer on its own: create_incident, lines 61-75, applied to ticket  *)
(* bundles of every shape, the resolvers having returned their fallbacks.   *)

\* the payload composed for ticket_data at clock reading now, with the
\* description_parts it was joined from
composed(ticket_data, now) ==
    [ret |-> incident_data(config, ticket_data, now, _get_fallback_caller(config),
                           _get_fallback_group(config), [sys_id |-> "", name |-> ""]),
     exc |-> NoExc,
     calls |-> << >>,
     trace |-> [description_parts |-> description_parts(ticket_data, now),
                now |-> now]]

Compose ==
    /\ pc = "idle"
    /\ \E ticket_data \in ComposerTickets, now \in Times :
        last' = Done("compose", ticket_data, composed(ticket_data, now))
    /\ pc' = "returned"
    /\ UNCHANGED <<config, user_cache, group_cache>>

NextCompose ==
    \/ Compose
    \/ TakeResult

SpecCompose == Init /\ [][NextCompose]_vars

-----------------------------------------------------------------------------
(* Overlapping runs.  The hosting process starts create_incident runs from  *)
(* a periodic job and from an initial task on the same agent, hence on the  *)
(* same caches, and the agent takes no lock.  Here two runs each execute    *)
(* create_incident once, a run giving way to the other while it waits for  *)
(* the remote lookup by email or the remote user creation: pc[r] is the     *)
(* place run r is at, last[r] what it has done so far.  What follows the    *)
(* caller resolution (lines 54-110) is taken in one step.                   *)

Runs == { 1, 2 }

\* the runs are for the same address or for different ones
OverlapTickets ==
    { [email |-> [from |-> a], category |-> EmptyDict] : a \in Emails \ { << >> } }

\* the remote system creates a new user record at each successful request
OverlapCreateUserOutcomes ==
    CreateUserOutcomes
    \cup { Returned([success |-> TRUE, sys_id |-> "u4", name |-> "New External"]) }

\* the remote create call succeeds, fails or raises
OverlapCreateIncidentOutcomes ==
    { o \in CreateIncidentOutcomes : o.kind = "raise" \/ "error" \notin DOMAIN o.result }

NoRecord == [none |-> TRUE]

InitOverlap ==
    /\ config \in Configs
    /\ user_cache = EmptyDict
    /\ group_cache = EmptyDict
    /\ pc = [r \in Runs |-> "idle"]
    /\ last = [r \in Runs |-> Idle]

\* the address run r resolves
RunFrom(r) == ticket_from(last[r].args)

\* run r moves to place p having done what the caller resolution result res
\* says; `replaced` is the record its cache write replaced, if any
CallerStep(r, p, res) ==
    /\ pc' = [pc EXCEPT ![r] = p]
    /\ user_cache' = res.cache
    /\ last' = [last EXCEPT ![r] =
                   [op |-> "create_incident", args |-> last[r].args,
                    calls |-> last[r].calls \o res.calls,
                    caller |-> res.ret,
                    replaced |-> IF /\ Str(RunFrom(r)) \in DOMAIN user_cache
                                    /\ res.cache[Str(RunFrom(r))] # user_cache[Str(RunFrom(r))]
                                 THEN user_cache[Str(RunFrom(r))]
                                 ELSE NoRecord,
                    ret |-> PyNone]]
    /\ UNCHANGED <<config, group_cache>>

\* main.py, lines 40-52: a run of the workflow reaches create_incident
StartRun(r) ==
    /\ pc[r] = "idle"
    /\ \E ticket_data \in OverlapTickets :
        last' = [last EXCEPT ![r] =
                    [op |-> "create_incident", args |-> ticket_data, calls |-> << >>,
                     caller |-> PyNone, replaced |-> NoRecord, ret |-> PyNone]]
    /\ pc' = [pc EXCEPT ![r] = "check"]
    /\ UNCHANGED <<config, user_cache, group_cache>>

\* _lookup_caller, lines 153-157: the empty-address and cache tests
CheckCache(r) ==
    /\ pc[r] = "check"
    /\ IF RunFrom(r) = << >> \/ Str(RunFrom(r)) \in DOMAIN user_cache
       THEN CallerStep(r, "resolved",
                       _lookup_caller(config, user_cache, RunFrom(r),
                                      Unanswered, Unanswered))
       ELSE CallerStep(r, "lookup", Result(PyNone, user_cache, << >>))

\* _lookup_caller, lines 160-180, up to the create_user call when
\* _handle_unknown_caller issues one: the remote lookup by email returns
LookupUserByEmail(r) ==
    /\ pc[r] = "lookup"
    /\ \E o \in LookupUserByEmailOutcomes :
        IF /\ o.kind = "return"
           /\ ~IsTrue(o.result, "found")
           /\ get_setting(config, "create_unknown_users", FALSE)
        THEN CallerStep(r, "create",
                        Result(PyNone, user_cache,
                               <<[api |-> "lookup_user_by_email",
                                  arg |-> Str(RunFrom(r)), answer |-> o]>>))
        ELSE CallerStep(r, "resolved",
                        TryExcept(_lookup_caller_try(config, user_cache, RunFrom(r),
                                                     o, Unanswered),
                                  _get_fallback_caller(config)))

\* _handle_unknown_caller, lines 187-211: the remote user creation returns
CreateUser(r) ==
    /\ pc[r] = "create"
    /\ \E o \in OverlapCreateUserOutcomes :
        CallerStep(r, "resolved",
                   _handle_unknown_caller(config, user_cache, RunFrom(r), o))

\* create_incident, lines 54-110, for run r: what follows the caller
\* resolution, given the answers o of the remote client
finish(r, o) ==
    TryExceptFailure(
        resolve_assignment(config, group_cache, last[r].args, o,
                           Result(last[r].caller, user_cache, last[r].calls)))

\* the answers the remote client can give run r to the call api, given the
\* answers o to the calls issued before it: those in S if the call is issued
FinishAnswers(r, o, api, S) == IF Issues(finish(r, o), api) THEN S ELSE { Unanswered }

\* run r has finished with result res
FinishRunDone(r, res) ==
    /\ user_cache' = res.ucache
    /\ group_cache' = res.gcache
    /\ last' = [last EXCEPT ![r] =
                   [op |-> "create_incident", args |-> last[r].args,
                    calls |-> res.calls, caller |-> last[r].caller,
                    replaced |-> last[r].replaced, ret |-> res.ret]]

\* create_incident, lines 54-110: the rest of the run, given the caller
FinishRun(r) ==
    /\ pc[r] = "resolved"
    /\ \E o3 \in FinishAnswers(r, NoAnswers,
                               "lookup_group_by_name", LookupGroupByNameOutcomes) :
       \E o4 \in FinishAnswers(r, [NoAnswers EXCEPT !.lookup_group_by_name = o3],
                               "lookup_user_by_username", LookupUserByUsernameOutcomes) :
       \E o5 \in FinishAnswers(r, [NoAnswers EXCEPT !.lookup_group_by_name = o3,
                                                    !.lookup_user_by_username = o4],
                               "create_incident", OverlapCreateIncidentOutcomes) :
          FinishRunDone(r, finish(r, [lookup_group_by_name |-> o3,
                                      lookup_user_by_username |-> o4,
                                      create_incident |-> o5, now |-> 0]))
    /\ pc' = [pc EXCEPT ![r] = "done"]
    /\ UNCHANGED config

NextOverlap ==
    \E r \in Runs :
        \/ StartRun(r)
        \/ CheckCache(r)
        \/ LookupUserByEmail(r)
        \/ CreateUser(r)
        \/ FinishRun(r)

SpecOverlap == InitOverlap /\ [][NextOverlap]_vars

-----------------------------------------------------------------------------
(* Observations on the last operation *)

Created == pc = "returned" /\ last.op = "create_incident"

\* positions in the call log of the calls to api
CallIdx(api) == { i \in 1..Len(last.calls) : last.calls[i].api = api }

Called(api) == CallIdx(api) # {}

\* the one call to api of the last operation
TheCall(api) == last.calls[CHOOSE i \in CallIdx(api) : TRUE]

\* the remote client raised on the call to api
AnswerRaised(api) == Called(api) /\ TheCall(api).answer.kind = "raise"

\* the remote client answered the call to api with flag (found, success) set
AnswerHas(api, flag) ==
    /\ Called(api)
    /\ TheCall(api).answer.kind = "return"
    /\ IsTrue(TheCall(api).answer.result, flag)

\* the remote client answered the call to api without flag
AnswerLacks(api, flag) ==
    /\ Called(api)
    /\ TheCall(api).answer.kind = "return"
    /\ ~IsTrue(TheCall(api).answer.result, flag)

TicketFrom == Get(Get(last.args, "email", EmptyDict), "from", << >>)

TicketCategory == Get(Get(last.args, "category", EmptyDict), "category", "General")

\* the three resolvers ran to completion
Resolved == Created /\ DOMAIN last.trace # {}

-----------------------------------------------------------------------------
(* C1 *)

SuccessOrError(ret) ==
    /\ "success" \in DOMAIN ret
    /\ ret.success \in BOOLEAN
    /\ IF ret.success THEN DOMAIN ret = {"success"}
                      ELSE DOMAIN ret = {"success", "error"}

WellFormed ==
    CASE last.op = "create_incident" ->
            /\ "success" \in DOMAIN last.ret
            /\ last.ret.success \in BOOLEAN
            /\ IF last.ret.success
               THEN DOMAIN last.ret = {"success", "ticket_number", "sys_id",
                                       "assignment_group", "assigned_user", "caller"}
               ELSE DOMAIN last.ret = {"success", "error"}
      [] last.op \in {"update_incident", "close_incident", "add_comment_to_incident"} ->
            SuccessOrError(last.ret)
      [] last.op = "get_incident_status" ->
            /\ "found" \in DOMAIN last.ret
            /\ last.ret.found \in BOOLEAN
            /\ IF last.ret.found
               THEN DOMAIN last.ret = {"found", "state", "state_name", "resolution_code",
                                       "resolution_notes", "updated"}
               ELSE DOMAIN last.ret \in {{"found"}, {"found", "error"}}
      [] last.op = "search_incidents_by_email" ->
            DOMAIN last.ret = 1..Len(last.ret)
      [] last.op = "validate_servicenow_connection" ->
            last.ret \in BOOLEAN

\* C1: no public operation lets an exception escape, whatever the remote
\* client does: the operation returns a well-formed result, and
\* create_incident returns {success: false, error: <the exception's message>}
\* when the remote create call raises.
C1_NoExceptionEscapes ==
    pc = "returned" =>
        /\ last.exc = NoExc
        /\ WellFormed
        /\ (last.op = "create_incident" /\ AnswerRaised("create_incident")) =>
              last.ret = [success |-> FALSE,
                          error |-> PyStr(TheCall("create_incident").answer.msg)]

C1_Witness == Created /\ AnswerRaised("create_incident") /\ last.ret.success = FALSE

-----------------------------------------------------------------------------
(* C2 *)

FallbackOrEmpty(api, record, fallback) ==
    (AnswerRaised(api) \/ AnswerLacks(api, "found")) => record = fallback

\* C2: a failed identity resolution does not fail create_incident.  When a
\* remote lookup raises or reports not-found, or the remote user creation
\* raises or fails, the resolver still returns a populated record (the
\* fallback caller, the fallback group, the empty assigned user) and
\* create_incident goes on to submit the incident to the remote create call.
C2_ResolutionErrorsDegrade ==
    Created =>
        /\ Resolved
        /\ {"sys_id", "name"} \subseteq DOMAIN last.trace.caller
        /\ {"sys_id", "name"} \subseteq DOMAIN last.trace.group
        /\ {"sys_id", "name"} \subseteq DOMAIN last.trace.user
        /\ (\/ AnswerRaised("lookup_user_by_email")
            \/ AnswerRaised("create_user")
            \/ AnswerLacks("create_user", "success")
            \/ (AnswerLacks("lookup_user_by_email", "found") /\ ~Called("create_user")))
           => last.trace.caller = _get_fallback_caller(config)
        /\ FallbackOrEmpty("lookup_group_by_name", last.trace.group,
                           _get_fallback_group(config))
        /\ FallbackOrEmpty("lookup_user_by_username", last.trace.user,
                           [sys_id |-> "", name |-> ""])
        /\ Cardinality(CallIdx("create_incident")) = 1
        /\ last.calls[Len(last.calls)].api = "create_incident"

C2_Witness ==
    /\ Created
    /\ AnswerLacks("lookup_user_by_email", "found")
    /\ AnswerRaised("create_user")
    /\ AnswerRaised("lookup_group_by_name")
    /\ AnswerRaised("lookup_user_by_username")
    /\ Called("create_incident")

-----------------------------------------------------------------------------
(* C3 *)

\* C3: for an email address that is a key of the user cache, _lookup_caller
\* returns the cached record and issues neither the remote lookup by email
\* nor the remote user creation, whatever operations ran before.
C3_CachedCallerNoRemoteCall ==
    (Created /\ Str(TicketFrom) \in DOMAIN last.user_cache_before) =>
        /\ Resolved
        /\ last.trace.caller = last.user_cache_before[Str(TicketFrom)]
        /\ ~Called("lookup_user_by_email")
        /\ ~Called("create_user")

C3_Witness ==
    /\ Created
    /\ Str(TicketFrom) \in DOMAIN last.user_cache_before
    /\ ~Called("lookup_user_by_email")
    /\ last.trace.caller.sys_id = "u1"

-----------------------------------------------------------------------------
(* C4 *)

ConfiguredCaller == Get(fallback_config(config), "default_caller", EmptyDict)

ConfiguredGroup == Get(fallback_config(config), "default_assignment_group", EmptyDict)

AutoCreate == get_setting(config, "create_unknown_users", FALSE)

\* the incident record submitted to the remote create call
Payload == TheCall("create_incident").arg

\* the caller email is non-empty, the remote lookup by email reported
\* not-found and auto-creation of unknown users is disabled
C4_Case ==
    /\ Created
    /\ TicketFrom # << >>
    /\ AnswerLacks("lookup_user_by_email", "found")
    /\ ~AutoCreate

\* C4 as stated: in that case the caller's name is "Unknown Caller" or the
\* configured fallback caller's name and the payload's caller sys_id is "".
C4_AsStated ==
    C4_Case =>
        /\ last.trace.caller.name \in
              {"Unknown Caller"} \cup
              { ConfiguredCaller[k] : k \in {"name"} \cap DOMAIN ConfiguredCaller }
        /\ Payload.caller_id = ""

\* C4 (amended): in that case the caller is the fallback caller: name
\* "Unknown Caller" and sys_id "" when no default_caller is configured (or
\* it is empty); otherwise the configured name ("Default Caller" when it has
\* none) and the configured sys_id ("" when it has none).  The payload's
\* caller_id is that sys_id and a successful result reports that name.
C4_UnknownCallerGetsFallback ==
    C4_Case =>
        /\ Resolved
        /\ last.trace.caller.name =
              (IF DOMAIN ConfiguredCaller = {} THEN "Unknown Caller"
               ELSE Get(ConfiguredCaller, "name", "Default Caller"))
        /\ Called("create_incident")
        /\ Payload.caller_id =
              (IF DOMAIN ConfiguredCaller = {} THEN ""
               ELSE Get(ConfiguredCaller, "sys_id", ""))
        /\ last.ret.success => last.ret.caller = last.trace.caller.name

C4_Witness ==
    /\ C4_Case
    /\ Payload.caller_id = "fb_user"
    /\ last.ret.success
    /\ last.ret.caller = "Default Caller"

-----------------------------------------------------------------------------
(* C5 *)

\* the part of an address before its first "@" (all of it when it has none)
LocalPart(e) ==
    CHOOSE p \in { SubSeq(e, 1, n) : n \in 0..Len(e) } :
        /\ \A i \in 1..Len(p) : p[i] # "@"
        /\ Len(p) = Len(e) \/ e[Len(p) + 1] = "@"

\* cache `after` is cache `before` with record rec stored under key
Stored(before, after, key, rec) ==
    /\ DOMAIN after = DOMAIN before \cup {key}
    /\ after[key] = rec
    /\ \A k \in DOMAIN before \ {key} : after[k] = before[k]

C5_Case ==
    /\ Created
    /\ AnswerLacks("lookup_user_by_email", "found")
    /\ AutoCreate

\* C5: when the remote lookup by email reports not-found and auto-creation
\* is enabled, _lookup_caller requests remote user creation with user_name
\* and first_name the local part of the address, last_name "External" and
\* active true; if the creation succeeds the new record is stored in the
\* user cache under the address and returned; if it fails or raises the
\* fallback caller is returned and the cache is left as it was.
C5_AutoCreateUnknownCaller ==
    C5_Case =>
        /\ Resolved
        /\ Called("create_user")
        /\ LET user_data == TheCall("create_user").arg
               answer == TheCall("create_user").answer
               key == Str(TicketFrom)
               after == last.trace.user_cache_seen_by_assigned_user
           IN  /\ user_data.user_name = Str(LocalPart(TicketFrom))
               /\ user_data.first_name = Str(LocalPart(TicketFrom))
               /\ user_data.last_name = "External"
               /\ user_data.active = TRUE
               /\ IF AnswerHas("create_user", "success")
                  THEN LET rec == [sys_id |-> answer.result.sys_id,
                                   name |-> answer.result.name,
                                   email |-> key]
                       IN  /\ last.trace.caller = rec
                           /\ Stored(last.user_cache_before, after, key, rec)
                  ELSE /\ last.trace.caller = _get_fallback_caller(config)
                       /\ after = last.user_cache_before

C5_Witness ==
    /\ C5_Case
    /\ AnswerHas("create_user", "success")
    /\ TheCall("create_user").arg.user_name = "a"
    /\ "a@x" \in DOMAIN user_cache

C5_WitnessFailed ==
    /\ C5_Case
    /\ AnswerLacks("create_user", "success")
    /\ "a@x" \notin DOMAIN user_cache

-----------------------------------------------------------------------------
(* C6 *)

\* the name configured for category c in the table `setting`, "" when none
MappedName(setting, c) == Get(get_setting(config, setting, EmptyDict), c, "")

GroupMapped(c) == MappedName("category_to_group", c) # ""

UserMapped(c) == MappedName("category_to_user", c) # ""

\* C6: for a category with no configured group mapping,
\* _lookup_assignment_group returns the fallback group without calling the
\* remote group lookup; for a category with no configured user mapping,
\* _lookup_assigned_user returns {sys_id: "", name: ""} without calling the
\* remote user lookup.
C6_UnmappedCategory ==
    Resolved =>
        /\ ~GroupMapped(TicketCategory) =>
              /\ last.trace.group = _get_fallback_group(config)
              /\ ~Called("lookup_group_by_name")
        /\ ~UserMapped(TicketCategory) =>
              /\ last.trace.user = [sys_id |-> "", name |-> ""]
              /\ ~Called("lookup_user_by_username")

-----------------------------------------------------------------------------
(* C7 *)

\* C7: for a category with a configured group (user) mapping and no cache
\* entry, the resolver queries the remote lookup by the mapped name; on
\* found it stores the record under "group_" + category ("user_" +
\* category) and returns it; on not-found or exception it returns what the
\* unmapped case returns, the fallback group (the empty assigned user), and
\* stores nothing.
C7_MappedCategoryLookup ==
    Resolved =>
        /\ (/\ GroupMapped(TicketCategory)
            /\ ("group_" \o TicketCategory) \notin DOMAIN last.group_cache_before)
           => /\ Called("lookup_group_by_name")
              /\ TheCall("lookup_group_by_name").arg =
                    MappedName("category_to_group", TicketCategory)
              /\ IF AnswerHas("lookup_group_by_name", "found")
                 THEN LET a == TheCall("lookup_group_by_name").answer.result
                          rec == [sys_id |-> a.sys_id, name |-> a.name]
                      IN  /\ last.trace.group = rec
                          /\ Stored(last.group_cache_before, group_cache,
                                    "group_" \o TicketCategory, rec)
                 ELSE /\ last.trace.group = _get_fallback_group(config)
                      /\ group_cache = last.group_cache_before
        /\ (/\ UserMapped(TicketCategory)
            /\ ("user_" \o TicketCategory) \notin
                  DOMAIN last.trace.user_cache_seen_by_assigned_user)
           => /\ Called("lookup_user_by_username")
              /\ TheCall("lookup_user_by_username").arg =
                    MappedName("category_to_user", TicketCategory)
              /\ IF AnswerHas("lookup_user_by_username", "found")
                 THEN LET a == TheCall("lookup_user_by_username").answer.result
                          rec == [sys_id |-> a.sys_id, name |-> a.name]
                      IN  /\ last.trace.user = rec
                          /\ Stored(last.trace.user_cache_seen_by_assigned_user,
                                    user_cache, "user_" \o TicketCategory, rec)
                 ELSE /\ last.trace.user = [sys_id |-> "", name |-> ""]
                      /\ user_cache = last.trace.user_cache_seen_by_assigned_user

C7_Witness ==
    /\ Resolved
    /\ AnswerHas("lookup_group_by_name", "found")
    /\ "group_IT" \in DOMAIN group_cache
    /\ AnswerRaised("lookup_user_by_username")
    /\ last.trace.user.sys_id = ""

-----------------------------------------------------------------------------
(* C8 *)

\* the fallback caller was returned: the ticket has no caller address
C8_CallerCase == Resolved /\ TicketFrom = << >>

\* the fallback group was returned: unmapped category, nothing cached
C8_GroupCase ==
    /\ Resolved
    /\ ~GroupMapped(TicketCategory)
    /\ ("group_" \o TicketCategory) \notin DOMAIN last.group_cache_before

\* C8 as stated: the fallback caller is the configured default_caller if
\* present and non-empty, else the hardcoded one; the fallback group is the
\* configured default_assignment_group if present and non-empty, else the
\* hardcoded one.
C8_AsStated ==
    /\ C8_CallerCase =>
          last.trace.caller =
             (IF DOMAIN ConfiguredCaller # {} THEN ConfiguredCaller
              ELSE [sys_id |-> "", name |-> "Unknown Caller",
                    email |-> "unknown@company.com"])
    /\ C8_GroupCase =>
          last.trace.group =
             (IF DOMAIN ConfiguredGroup # {} THEN ConfiguredGroup
              ELSE [sys_id |-> "", name |-> "General Support"])

\* C8 (amended): when default_caller is configured and non-empty the
\* fallback caller takes its sys_id, name and email from it, a field it
\* lacks being "", "Default Caller" and "default@company.com"; else it is
\* the hardcoded {"", "Unknown Caller", "unknown@company.com"}.  When
\* default_assignment_group is configured and non-empty the fallback group
\* takes its sys_id and name from it, a field it lacks being "" and
\* "Default Group"; else it is the hardcoded {"", "General Support"}.
C8_FallbackRecords ==
    /\ C8_CallerCase =>
          last.trace.caller =
             (IF DOMAIN ConfiguredCaller # {}
              THEN [sys_id |-> Get(ConfiguredCaller, "sys_id", ""),
                    name |-> Get(ConfiguredCaller, "name", "Default Caller"),
                    email |-> Get(ConfiguredCaller, "email", "default@company.com")]
              ELSE [sys_id |-> "", name |-> "Unknown Caller",
                    email |-> "unknown@company.com"])
    /\ C8_GroupCase =>
          last.trace.group =
             (IF DOMAIN ConfiguredGroup # {}
              THEN [sys_id |-> Get(ConfiguredGroup, "sys_id", ""),
                    name |-> Get(ConfiguredGroup, "name", "Default Group")]
              ELSE [sys_id |-> "", name |-> "General Support"])

C8_Witness ==
    /\ C8_CallerCase
    /\ C8_GroupCase
    /\ DOMAIN ConfiguredCaller = {"sys_id"}
    /\ last.trace.caller.email = "default@company.com"
    /\ last.trace.group = [sys_id |-> "", name |-> "Triage"]

-----------------------------------------------------------------------------
(* C9 *)

BuiltInCategory(c) ==
    CASE c = "IT" -> "Software"
      [] c = "HR" -> "Human Resources"
      [] c = "Finance" -> "Finance"
      [] c = "Facilities" -> "Facilities"
      [] OTHER -> "General"

CategoryOverrides == get_setting(config, "servicenow_category_mapping", EmptyDict)

\* C9: the category field of the payload create_incident submits is the
\* configured override of the ticket's category when there is one, otherwise
\* its built-in mapping (IT -> Software, HR -> Human Resources, Finance ->
\* Finance, Facilities -> Facilities, General -> General), otherwise
\* "General"; so "IT" with no override gives "Software".
C9_CategoryMapping ==
    (Created /\ Called("create_incident")) =>
        Payload.category =
           (IF TicketCategory \in DOMAIN CategoryOverrides
            THEN CategoryOverrides[TicketCategory]
            ELSE BuiltInCategory(TicketCategory))

C9_Witness ==
    /\ Created
    /\ TicketCategory = "IT"
    /\ "IT" \notin DOMAIN CategoryOverrides
    /\ Payload.category = "Software"

C9_WitnessOverride ==
    /\ Created
    /\ TicketCategory = "IT"
    /\ Payload.category = "Hardware"

-----------------------------------------------------------------------------
(* C10 *)

\* the remote create call returned a result that does not report success
C10_Case == Created /\ AnswerLacks("create_incident", "success")

RemoteResult == TheCall("create_incident").answer.result

\* positions of the key "message" in the items of a structured error
MessageIdx(items) == { i \in 1..Len(items) : items[i][1] = "message" }

\* C10: when the remote create call returns a failure, create_incident
\* returns {success: false, error} where error is a str: the remote error
\* itself when that is a str, its nested message when it is a structured
\* record with a message, and "Unknown error" when the remote result has no
\* error.
C10_ErrorIsNormalized ==
    C10_Case =>
        /\ DOMAIN last.ret = {"success", "error"}
        /\ last.ret.success = FALSE
        /\ last.ret.error.t = "str"
        /\ IF "error" \notin DOMAIN RemoteResult
           THEN last.ret.error.s = "Unknown error"
           ELSE /\ RemoteResult.error.t = "str" => last.ret.error = RemoteResult.error
                /\ (/\ RemoteResult.error.t = "dict"
                    /\ MessageIdx(RemoteResult.error.items) # {})
                   => \E i \in MessageIdx(RemoteResult.error.items) :
                         last.ret.error = RemoteResult.error.items[i][2]

C10_Witness ==
    /\ C10_Case
    /\ "error" \in DOMAIN RemoteResult
    /\ RemoteResult.error.t = "dict"
    /\ last.ret.error = PyStr("Invalid table")

-----------------------------------------------------------------------------
(* C11 *)

\* every entry of cache `before` is in cache `after` with the same record
Kept(before, after) ==
    \A k \in DOMAIN before : k \in DOMAIN after /\ after[k] = before[k]

\* C11: once a record is stored in the user cache or the group cache under
\* a key, no operation removes that key or replaces its record by another
\* one, whatever sequence of operations (each run to completion) follows.
C11_NoEvictionNoReplacement ==
    [][Kept(user_cache, user_cache') /\ Kept(group_cache, group_cache')]_vars

\* key "user_IT" held a caller's record when create_incident resolved the
\* assigned user of the mapped category IT, whose key it also is
C11_Witness ==
    /\ Resolved
    /\ TicketCategory = "IT"
    /\ UserMapped("IT")
    /\ "user_IT" \in DOMAIN last.user_cache_before
    /\ "email" \in DOMAIN last.user_cache_before["user_IT"]
    /\ user_cache["user_IT"] = last.user_cache_before["user_IT"]
    /\ "group_IT" \in DOMAIN last.group_cache_before

-----------------------------------------------------------------------------
(* C13 *)

C13_Case == Created /\ TicketFrom = << >>

\* C13: for an empty email address _lookup_caller returns the fallback
\* caller at once: it issues neither the remote lookup by email nor the
\* remote user creation and leaves the user cache as it found it.
C13_EmptyEmail ==
    C13_Case =>
        /\ Resolved
        /\ last.trace.caller = _get_fallback_caller(config)
        /\ ~Called("lookup_user_by_email")
        /\ ~Called("create_user")
        /\ last.trace.user_cache_seen_by_assigned_user = last.user_cache_before

C13_Witness ==
    /\ C13_Case
    /\ AutoCreate
    /\ last.trace.caller.sys_id = "fb_user"
    /\ last.user_cache_before # EmptyDict
    /\ Called("create_incident")

-----------------------------------------------------------------------------
(* C14 *)

\* close_incident was called with a sys_id only: resolution_code and
\* resolution_notes left at their defaults
C14_Case ==
    /\ pc = "returned"
    /\ last.op = "close_incident"
    /\ last.args[2] = EmptyDict

\* C14: close_incident called with no resolution notes (and no resolution
\* code) sends exactly one remote update, for the given sys_id, with state
\* "6", resolution_code "Closed/Resolved by Caller", resolution_notes "" and
\* closed_at and resolved_at the clock readings taken during the call; it
\* returns {success: true} when the update succeeds, {success: false, error}
\* with the remote error when it fails and with the exception's message
\* when it raises: what update_incident returns for the same remote outcome.
C14_CloseIncident ==
    C14_Case =>
        /\ Len(last.calls) = 1
        /\ last.calls[1].api = "update_incident"
        /\ last.calls[1].arg[1] = last.args[1]
        /\ last.calls[1].arg[2] =
              [state |-> "6",
               resolution_code |-> "Closed/Resolved by Caller",
               resolution_notes |-> "",
               closed_at |-> strftime(last.trace.now[1]),
               resolved_at |-> strftime(last.trace.now[2])]
        /\ AnswerHas("update_incident", "success") => last.ret = [success |-> TRUE]
        /\ AnswerLacks("update_incident", "success") =>
              last.ret = [success |-> FALSE,
                          error |-> Get(last.calls[1].answer.result, "error", PyNone)]
        /\ AnswerRaised("update_incident") =>
              last.ret = [success |-> FALSE,
                          error |-> PyStr(last.calls[1].answer.msg)]
        /\ last.ret = update_incident(last.args[1], last.calls[1].arg[2],
                                      last.calls[1].answer).ret

C14_Witness ==
    /\ C14_Case
    /\ AnswerLacks("update_incident", "success")
    /\ last.ret = [success |-> FALSE, error |-> PyStr("HTTP 404")]
    /\ last.calls[1].arg[2].state = "6"

C14_WitnessClosed ==
    /\ C14_Case
    /\ AnswerHas("update_incident", "success")
    /\ last.ret = [success |-> TRUE]

-----------------------------------------------------------------------------
(* C15 *)

C15_Case == pc = "returned" /\ last.op = "get_incident_status"

\* C15: get_incident_status returns {found: true, state, state_name,
\* resolution_code, resolution_notes, updated}, taken from the remote record,
\* when the remote get reports found; {found: false} and nothing else when
\* it reports not-found; {found: false, error} when, and only when, the
\* remote call raises.
C15_GetIncidentStatus ==
    C15_Case =>
        /\ Len(last.calls) = 1
        /\ last.calls[1].api = "get_incident"
        /\ AnswerHas("get_incident", "found") =>
              LET r == last.calls[1].answer.result
              IN  last.ret = [found |-> TRUE, state |-> r.state,
                              state_name |-> r.state_name,
                              resolution_code |-> r.resolution_code,
                              resolution_notes |-> r.resolution_notes,
                              updated |-> r.sys_updated_on]
        /\ AnswerLacks("get_incident", "found") => last.ret = [found |-> FALSE]
        /\ AnswerRaised("get_incident") =>
              last.ret = [found |-> FALSE,
                          error |-> PyStr(last.calls[1].answer.msg)]
        /\ "error" \in DOMAIN last.ret => AnswerRaised("get_incident")

C15_Witness ==
    /\ C15_Case
    /\ AnswerLacks("get_incident", "found")
    /\ DOMAIN last.ret = {"found"}

C15_WitnessFound ==
    /\ C15_Case
    /\ last.ret.found
    /\ last.ret.updated = "2024-01-01 00:00:00"

C15_WitnessRaised ==
    /\ C15_Case
    /\ AnswerRaised("get_incident")
    /\ "error" \in DOMAIN last.ret

-----------------------------------------------------------------------------
(* C16 *)

C16_SearchCase == pc = "returned" /\ last.op = "search_incidents_by_email"

C16_ValidateCase == pc = "returned" /\ last.op = "validate_servicenow_connection"

\* C16: search_incidents_by_email returns the incidents of the remote
\* result when the remote search succeeds (the empty list when the result
\* has none) and the empty list when the remote search fails or raises;
\* validate_servicenow_connection returns false when the remote connection
\* test raises (and what the test returns otherwise).
C16_SearchAndValidate ==
    /\ C16_SearchCase =>
          /\ last.exc = NoExc
          /\ AnswerHas("search_incidents_by_caller_email", "success") =>
                LET r == TheCall("search_incidents_by_caller_email").answer.result
                IN  last.ret = (IF "incidents" \in DOMAIN r THEN r.incidents ELSE << >>)
          /\ AnswerLacks("search_incidents_by_caller_email", "success") =>
                last.ret = << >>
          /\ AnswerRaised("search_incidents_by_caller_email") => last.ret = << >>
    /\ C16_ValidateCase =>
          /\ last.exc = NoExc
          /\ AnswerRaised("test_connection") => last.ret = FALSE
          /\ ~AnswerRaised("test_connection") =>
                last.ret = TheCall("test_connection").answer.result

C16_Witness ==
    /\ C16_SearchCase
    /\ AnswerRaised("search_incidents_by_caller_email")
    /\ last.ret = << >>

C16_WitnessFound ==
    /\ C16_SearchCase
    /\ AnswerHas("search_incidents_by_caller_email", "success")
    /\ Len(last.ret) = 1

C16_WitnessValidate ==
    /\ C16_ValidateCase
    /\ AnswerRaised("test_connection")
    /\ last.ret = FALSE

-----------------------------------------------------------------------------
(* C12 *)

\* C12: create_incident does no deduplication.  Every invocation resolves
\* and composes to completion and then issues exactly one remote create
\* call, the last remote call it makes, whatever the caches hold: also when
\* the caller, the group and the assigned user all come from the caches that
\* earlier invocations for the same address and category filled.
C12_OneCreatePerInvocation ==
    Created =>
        /\ Resolved
        /\ Cardinality(CallIdx("create_incident")) = 1
        /\ CallIdx("create_incident") = { Len(last.calls) }
        /\ Payload.u_source_email = Str(TicketFrom)

\* an invocation that finds caller, group and assigned user cached, by
\* earlier invocations with this address and this category, and issues the
\* remote create call and nothing else
C12_Witness ==
    /\ Created
    /\ TicketFrom = <<"a", "@", "x">>
    /\ TicketCategory = "IT"
    /\ "a@x" \in DOMAIN last.user_cache_before
    /\ "group_IT" \in DOMAIN last.group_cache_before
    /\ "user_IT" \in DOMAIN last.user_cache_before
    /\ Len(last.calls) = 1
    /\ last.calls[1].api = "create_incident"
    /\ last.ret.success

-----------------------------------------------------------------------------
(* C17 *)

\* a payload was composed: by the composer on its own, or by create_incident
\* for the remote create call
Composed ==
    /\ pc = "returned"
    /\ \/ last.op = "compose"
       \/ last.op = "create_incident" /\ Called("create_incident")

ComposedPayload == IF last.op = "compose" THEN last.ret ELSE Payload

\* p is s cut to at most n characters
CutTo(p, s, n) ==
    /\ Len(p) = (IF Len(s) < n THEN Len(s) ELSE n)
    /\ \A i \in 1..Len(p) : p[i] = s[i]

\* C17: in the payload create_incident composes, short_description is the
\* ticket's short_description cut to 160 characters (length min(160, its
\* length), a prefix of it) and u_email_subject is the email's subject cut
\* to 255 characters; priority and urgency are the ticket's, and "3" each
\* when the ticket has none.
C17_TruncationAndDefaults ==
    Composed =>
        LET email_data == Get(last.args, "email", EmptyDict)
            category_data == Get(last.args, "category", EmptyDict)
        IN  /\ "short_description" \in DOMAIN last.args =>
                  CutTo(ComposedPayload.short_description,
                        last.args.short_description, 160)
            /\ "subject" \in DOMAIN email_data =>
                  CutTo(ComposedPayload.u_email_subject, email_data.subject, 255)
            /\ ComposedPayload.priority =
                  (IF "priority" \in DOMAIN category_data THEN category_data.priority
                   ELSE "3")
            /\ ComposedPayload.urgency =
                  (IF "urgency" \in DOMAIN category_data THEN category_data.urgency
                   ELSE "3")

C17_Witness ==
    /\ Composed
    /\ "short_description" \in DOMAIN last.args
    /\ Len(last.args.short_description) = 161
    /\ Len(ComposedPayload.short_description) = 160
    /\ ComposedPayload.priority = "3"
    /\ ComposedPayload.urgency = "3"

C17_WitnessSubject ==
    /\ Composed
    /\ "subject" \in DOMAIN Get(last.args, "email", EmptyDict)
    /\ Len(Get(last.args, "email", EmptyDict).subject) = 256
    /\ Len(ComposedPayload.u_email_subject) = 255
    /\ ComposedPayload.urgency = "2"

-----------------------------------------------------------------------------
(* C18 *)

C18_Case == pc = "returned" /\ last.op = "compose"

\* positions of the lines of the composed description that equal line
LinesAt(line) ==
    { i \in 1..Len(last.trace.description_parts) :
        last.trace.description_parts[i] = line }

\* the field key of the sub-record sub of the ticket, "" when it has none
TicketText(sub, key) == Get(Get(last.args, sub, EmptyDict), key, "")

\* the header line is present once, followed by the lines body, if text is
\* non-empty, and absent otherwise
SectionIff(header, text, body) ==
    IF text # ""
    THEN /\ Cardinality(LinesAt(header)) = 1
         /\ \A i \in LinesAt(header) :
               /\ i + Len(body) <= Len(last.trace.description_parts)
               /\ SubSeq(last.trace.description_parts, i + 1, i + Len(body)) = body
    ELSE LinesAt(header) = {}

\* every line h1 comes before every line h2
Before(h1, h2) == \A i \in LinesAt(h1), j \in LinesAt(h2) : i < j

\* C18: the description is its lines joined by newlines, and its sections
\* come in the order Issue Description, Email Details, Email Preview,
\* Categorization, Auto-generated.  Email Details is always there and the
\* Auto-generated line is always the last one; Issue Description, Email
\* Preview and Categorization are there, header and text, exactly when
\* summary.description, email.body_preview and category.reasoning
\* respectively are non-empty, and an omitted section leaves no header and
\* no blank line (the blank lines are one per optional section present and
\* one before the Auto-generated line).
C18_DescriptionSections ==
    C18_Case =>
        LET parts == last.trace.description_parts
            stamp == "Auto-generated: " \o isoformat(last.trace.now)
            present == { h \in {"Issue Description:", "Email Preview:", "Categorization:"} :
                           LinesAt(h) # {} }
        IN  /\ last.ret.description = join(parts)
            /\ Cardinality(LinesAt("Email Details:")) = 1
            /\ LinesAt(stamp) = { Len(parts) }
            /\ SectionIff("Issue Description:", TicketText("summary", "description"),
                          <<TicketText("summary", "description")>>)
            /\ SectionIff("Email Preview:", TicketText("email", "body_preview"),
                          <<TicketText("email", "body_preview")>>)
            /\ SectionIff("Categorization:", TicketText("category", "reasoning"),
                          <<"Category: " \o Get(Get(last.args, "category", EmptyDict),
                                                "category", "General"),
                            "Reasoning: " \o TicketText("category", "reasoning")>>)
            /\ Before("Issue Description:", "Email Details:")
            /\ Before("Email Details:", "Email Preview:")
            /\ Before("Email Details:", "Categorization:")
            /\ Before("Email Preview:", "Categorization:")
            /\ Before("Categorization:", stamp)
            /\ Before("Email Details:", stamp)
            /\ Cardinality(LinesAt("")) = Cardinality(present) + 1

\* all five sections present
C18_Witness ==
    /\ C18_Case
    /\ LinesAt("Issue Description:") = {1}
    /\ LinesAt("Email Details:") = {4}
    /\ LinesAt("Email Preview:") = {9}
    /\ LinesAt("Categorization:") = {12}
    /\ Len(last.trace.description_parts) = 16

\* only the preview missing, and only its header with it
C18_WitnessOmitted ==
    /\ C18_Case
    /\ "body_preview" \notin DOMAIN Get(last.args, "email", EmptyDict)
    /\ LinesAt("Issue Description:") # {}
    /\ LinesAt("Categorization:") # {}
    /\ LinesAt("Email Preview:") = {}

-----------------------------------------------------------------------------
(* C20 *)

\* the records a resolver builds from the answers in S that have flag set
Built(S, flag) ==
    { [sys_id |-> o.result.sys_id, name |-> o.result.name] :
        o \in { a \in S : a.kind = "return" /\ IsTrue(a.result, flag) } }

\* the record r without its email field
SysIdAndName(r) == [sys_id |-> r.sys_id, name |-> r.name]

\* rec is a caller record for address key built from a remote lookup that
\* reported found or a remote creation that succeeded
CallerRecord(key, rec) ==
    /\ DOMAIN rec = {"sys_id", "name", "email"}
    /\ rec.email = key
    /\ SysIdAndName(rec) \in Built(LookupUserByEmailOutcomes, "found")
                             \cup Built(CreateUserOutcomes, "success")

\* the caller resolution of the last create_incident ended in the fallback
\* caller after trying the remote system
CallerFellBack ==
    \/ AnswerRaised("lookup_user_by_email")
    \/ AnswerRaised("create_user")
    \/ AnswerLacks("create_user", "success")
    \/ AnswerLacks("lookup_user_by_email", "found") /\ ~Called("create_user")

\* C20: fallback and empty records are never cached.  In every reachable
\* state each entry of the user cache is a record built from a remote
\* lookup that reported found or a remote creation that succeeded, and each
\* entry of the group cache one built from a remote group lookup that
\* reported found.  A resolution that ends in the fallback caller, the
\* fallback group or the empty assigned user stores nothing, and a
\* resolution that finds nothing stored under its key queries the remote
\* system (for a non-empty address, a mapped category): so does the next
\* one after a resolution that ended in a fallback.
C20_FallbacksNeverCached ==
    /\ \A k \in DOMAIN user_cache :
          \/ CallerRecord(k, user_cache[k])
          \/ user_cache[k] \in Built(LookupUserByUsernameOutcomes, "found")
    /\ \A k \in DOMAIN group_cache :
          group_cache[k] \in Built(LookupGroupByNameOutcomes, "found")
    /\ Resolved =>
          /\ CallerFellBack =>
                /\ last.trace.caller = _get_fallback_caller(config)
                /\ last.trace.user_cache_seen_by_assigned_user = last.user_cache_before
          /\ (AnswerRaised("lookup_group_by_name")
                \/ AnswerLacks("lookup_group_by_name", "found")) =>
                /\ last.trace.group = _get_fallback_group(config)
                /\ group_cache = last.group_cache_before
          /\ (AnswerRaised("lookup_user_by_username")
                \/ AnswerLacks("lookup_user_by_username", "found")) =>
                /\ last.trace.user = [sys_id |-> "", name |-> ""]
                /\ user_cache = last.trace.user_cache_seen_by_assigned_user
          /\ (TicketFrom # << >> /\ Str(TicketFrom) \notin DOMAIN last.user_cache_before)
                => Called("lookup_user_by_email")
          /\ (/\ GroupMapped(TicketCategory)
              /\ ("group_" \o TicketCategory) \notin DOMAIN last.group_cache_before)
                => Called("lookup_group_by_name")
          /\ (/\ UserMapped(TicketCategory)
              /\ ("user_" \o TicketCategory) \notin
                    DOMAIN last.trace.user_cache_seen_by_assigned_user)
                => Called("lookup_user_by_username")

\* category IT was resolved before (its group is cached) and its assigned
\* user, though mapped, is not cached: that resolution ended in the empty
\* user, this one queries the remote system again, and so will the next
C20_Witness ==
    /\ Resolved
    /\ TicketCategory = "IT"
    /\ UserMapped("IT")
    /\ "group_IT" \in DOMAIN last.group_cache_before
    /\ "user_IT" \notin DOMAIN last.trace.user_cache_seen_by_assigned_user
    /\ AnswerLacks("lookup_user_by_username", "found")
    /\ "user_IT" \notin DOMAIN user_cache
    /\ CallerFellBack
    /\ Str(TicketFrom) \notin DOMAIN user_cache

-----------------------------------------------------------------------------
(* C19 *)

\* the cache key of the address run r resolves
RunKey(r) == Str(RunFrom(r))

\* run r has issued the remote call api
RunCalled(r, api) == \E i \in 1..Len(last[r].calls) : last[r].calls[i].api = api

\* run r takes a step from place p that issues the remote call api, for which
\* it gets the answer a
IssuesCall(r, p, api, a) ==
    /\ pc[r] = p
    /\ pc'[r] # p
    /\ Len(last'[r].calls) = Len(last[r].calls) + 1
    /\ last'[r].calls[Len(last'[r].calls)].api = api
    /\ last'[r].calls[Len(last'[r].calls)].answer = a

\* run r stores the caller record built from the remote result res under its
\* key, whatever the cache held there, and resolves to it
StoresCaller(r, res) ==
    /\ last'[r].caller =
          [sys_id |-> res.sys_id, name |-> res.name, email |-> RunKey(r)]
    /\ user_cache' = Put(user_cache, RunKey(r), last'[r].caller)

\* C19: the agent does not guard its caches against overlapping runs.  A run
\* that missed the cache goes on to the remote lookup by email and, when
\* that reports not-found and auto-creation is enabled, to the remote user
\* creation, whatever the other run has done meanwhile; and when the lookup
\* reports found, or the creation succeeds, it writes its record under the
\* address, replacing the record the other run may have written there.  So
\* two overlapping runs for the same uncached address can both miss, both
\* look up, both create, and the later write wins.
C19_OverlappingRunsUnguarded ==
    [][\A r \in Runs :
          /\ (/\ pc[r] = "check"
              /\ pc'[r] # "check"
              /\ RunKey(r) \notin DOMAIN user_cache)
             => pc'[r] = "lookup"
          /\ (pc[r] = "lookup" /\ pc'[r] # "lookup") =>
                \E a \in LookupUserByEmailOutcomes :
                   /\ IssuesCall(r, "lookup", "lookup_user_by_email", a)
                   /\ (a.kind = "return" /\ IsTrue(a.result, "found"))
                         => StoresCaller(r, a.result)
                   /\ (/\ a.kind = "return"
                       /\ ~IsTrue(a.result, "found")
                       /\ get_setting(config, "create_unknown_users", FALSE))
                         => pc'[r] = "create"
          /\ (pc[r] = "create" /\ pc'[r] # "create") =>
                \E a \in OverlapCreateUserOutcomes :
                   /\ IssuesCall(r, "create", "create_user", a)
                   /\ (a.kind = "return" /\ IsTrue(a.result, "success"))
                         => StoresCaller(r, a.result)
      ]_vars

\* the caller resolutions of both runs are over, for the same address; both
\* looked the address up and both asked for a new user; run r wrote after
\* run q, replacing q's record by its own, a different one
C19_Witness ==
    \E r \in Runs, q \in Runs :
        /\ r # q
        /\ pc[r] \in {"resolved", "done"}
        /\ pc[q] \in {"resolved", "done"}
        /\ RunKey(r) = "a@x"
        /\ RunKey(q) = "a@x"
        /\ RunCalled(r, "lookup_user_by_email")
        /\ RunCalled(q, "lookup_user_by_email")
        /\ RunCalled(r, "create_user")
        /\ RunCalled(q, "create_user")
        /\ last[q].caller.sys_id = "u3"
        /\ last[r].caller.sys_id = "u4"
        /\ last[r].replaced = last[q].caller
        /\ user_cache["a@x"] = last[r].caller

\* both runs missed the cache and both got the caller from the remote lookup
C19_WitnessLookup ==
    /\ \A r \in Runs :
          /\ pc[r] = "done"
          /\ RunKey(r) = "a@x"
          /\ RunCalled(r, "lookup_user_by_email")
          /\ last[r].caller.sys_id = "u1"
    /\ user_cache["a@x"].sys_id = "u1"

-----------------------------------------------------------------------------
(* C21 *)

\* a record _lookup_caller builds has an email field, a record
\* _lookup_assigned_user builds has none
IsCallerRecord(rec) == "email" \in DOMAIN rec

\* C21: the cache slots of the two lookup types never collide: when
\* _lookup_caller returns a cached record, that record was cached by
\* _lookup_caller, and when _lookup_assigned_user returns a cached record,
\* that record was cached by _lookup_assigned_user, although both use the
\* one user cache (caller key = address, assigned-user key = "user_" +
\* category).
C21_NoSlotCollision ==
    Resolved =>
        /\ (TicketFrom # << >> /\ Str(TicketFrom) \in DOMAIN last.user_cache_before)
              => IsCallerRecord(last.trace.caller)
        /\ ("user_" \o TicketCategory) \in
              DOMAIN last.trace.user_cache_seen_by_assigned_user
              => ~IsCallerRecord(last.trace.user)

\* the assigned user of category IT is the caller record that the same
\* invocation cached for the address "user_IT"
C21_CallerAsAssignedUser ==
    /\ Resolved
    /\ Str(TicketFrom) = "user_IT"
    /\ TicketCategory = "IT"
    /\ AnswerHas("lookup_user_by_email", "found")
    /\ last.trace.user = last.trace.caller
    /\ Payload.assigned_to = "u1"

\* the caller for the address "user_IT" is the record an earlier invocation
\* cached for the assigned user of category IT
C21_AssignedUserAsCaller ==
    /\ Resolved
    /\ Str(TicketFrom) = "user_IT"
    /\ ~Called("lookup_user_by_email")
    /\ last.trace.caller = [sys_id |-> "u2", name |-> "IT Admin"]
    /\ Payload.caller_id = "u2"

-----------------------------------------------------------------------------
(* C22 *)

\* the operations other than create_incident
OtherOperations ==
    { "update_incident", "close_incident", "add_comment_to_incident",
      "get_incident_status", "search_incidents_by_email",
      "validate_servicenow_connection" }

\* the remote create call of the last create_incident failed or raised
CreateFailed ==
    /\ Created
    /\ AnswerLacks("create_incident", "success") \/ AnswerRaised("create_incident")

\* the record the last create_incident built from the answer to api is in
\* cache under key
Cached(cache, key, api) ==
    /\ key \in DOMAIN cache
    /\ SysIdAndName(cache[key]) =
          SysIdAndName(TheCall(api).answer.result)

\* what the resolvers of the last create_incident stored is in the caches
ResolutionWritesKept ==
    /\ Kept(last.user_cache_before, user_cache)
    /\ Kept(last.group_cache_before, group_cache)
    /\ AnswerHas("lookup_user_by_email", "found")
          => Cached(user_cache, Str(TicketFrom), "lookup_user_by_email")
    /\ AnswerHas("create_user", "success")
          => Cached(user_cache, Str(TicketFrom), "create_user")
    /\ AnswerHas("lookup_group_by_name", "found")
          => Cached(group_cache, "group_" \o TicketCategory, "lookup_group_by_name")
    /\ AnswerHas("lookup_user_by_username", "found")
          => Cached(user_cache, "user_" \o TicketCategory, "lookup_user_by_username")

\* C22: update_incident, close_incident, add_comment_to_incident,
\* get_incident_status, search_incidents_by_email and
\* validate_servicenow_connection leave the user cache and the group cache
\* as they are, whatever the remote client answers; only create_incident
\* changes them, and what its resolvers stored is still there when its
\* remote create call fails or raises.
C22_CacheFrame ==
    [][/\ (last'.op \in OtherOperations \/ last'.op = "none")
             => UNCHANGED <<user_cache, group_cache>>
       /\ (user_cache' # user_cache \/ group_cache' # group_cache)
             => (pc = "idle" /\ pc' = "returned" /\ last'.op = "create_incident")
       /\ CreateFailed' => ResolutionWritesKept'
      ]_vars

\* the remote create call raised after the caller, the group and the
\* assigned user had been found and stored
C22_Witness ==
    /\ CreateFailed
    /\ AnswerRaised("create_incident")
    /\ last.user_cache_before = EmptyDict
    /\ last.group_cache_before = EmptyDict
    /\ DOMAIN user_cache = {"a@x", "user_IT"}
    /\ DOMAIN group_cache = {"group_IT"}

\* an operation other than create_incident has run on filled caches
C22_WitnessOther ==
    /\ pc = "returned"
    /\ last.op = "close_incident"
    /\ AnswerRaised("update_incident")
    /\ user_cache # EmptyDict
    /\ user_cache = last.user_cache_before

-----------------------------------------------------------------------------
(* C23 *)

C23_Case == pc = "returned" /\ last.op = "close_incident"

\* C23: in the update payload close_incident sends, closed_at and
\* resolved_at are the same timestamp, also when the clock advances during
\* the call.
C23_SameTimestamp ==
    C23_Case =>
        last.calls[1].arg[2].closed_at = last.calls[1].arg[2].resolved_at

\* the clock passed a second boundary between the two readings
C23_ClockAdvanced ==
    /\ C23_Case
    /\ last.trace.now[1] < last.trace.now[2]
    /\ last.calls[1].arg[2].closed_at < last.calls[1].arg[2].resolved_at

====
